---- MODULE Spec2Model ----
(***************************************************************************)
(* The patent store of App.tsx: the in-memory record list, the alert       *)
(* effect (90-day rule), the filtered view, the import / update / delete   *)
(* handlers and the export; and the AI service of geminiService.ts: the    *)
(* chat and the two parsers.                                               *)
(*                                                                         *)
(* Strings are sequences of one-character strings, so that trim() and      *)
(* includes() are computed and not assumed.  Time is counted in clock      *)
(* ticks, DayLen ticks to a day; a date string "YYYY-MM-DD" is the day     *)
(* number it denotes and parses to that day's midnight.                    *)
(***************************************************************************)
EXTENDS Integers, Sequences, FiniteSets

VARIABLES
    patents,            \* useState<Patent[]>            (App.tsx:22)
    viewMode,           \* 'dashboard' | 'list'          (App.tsx:15)
    searchTerm,         \* useState('')                  (App.tsx:16)
    statusFilter,       \* PatentStatus | 'ALL'          (App.tsx:17)
    patentToDelete,     \* Patent | null, <<>> is null   (App.tsx:31)
    isDeleteModalOpen,  \* App.tsx:28
    alertCount,         \* App.tsx:32
    effectPending,      \* the [patents] effect is scheduled and has not run
    now,                \* the clock read by new Date()
    nextId,             \* the id the next created record gets
    last,               \* history: the last handler that ran, with its input
    chatSession,        \* let chatSession: Chat | null  (geminiService.ts:15)
    calls               \* the invocations of the AI service functions

appVars == <<patents, viewMode, searchTerm, statusFilter, patentToDelete,
             isDeleteModalOpen, alertCount, effectPending, now, nextId, last>>

aiVars == <<chatSession, calls>>

vars == <<patents, viewMode, searchTerm, statusFilter, patentToDelete,
          isDeleteModalOpen, alertCount, effectPending, now, nextId, last,
          chatSession, calls>>

(***************************************************************************)
(* Bounds of the model.                                                    *)
(***************************************************************************)
MaxBatch == 2      \* records of one import batch
MaxId    == 3      \* ids handed out in one run
MaxNow   == 1      \* last clock tick of a run
MaxAlertStore  == 2   \* records of a store the alert rule is tried on
MaxFilterStore == 2   \* records of a store the filter is tried on
MaxExportStore == 2   \* records of a store the export is tried on
MaxCalls == 2      \* invocations of the AI service in flight at once
DayLen   == 2      \* clock ticks in a day (the resolution of the clock)

\* 90 of `diffDays <= 90`
WindowDays == 90

(***************************************************************************)
(* Strings.                                                                *)
(***************************************************************************)
IsWhiteSpace(c) == c = " "

RECURSIVE TrimStart(_)
TrimStart(s) ==
    IF s = <<>> THEN <<>>
    ELSE IF IsWhiteSpace(Head(s)) THEN TrimStart(Tail(s)) ELSE s

RECURSIVE TrimEnd(_)
TrimEnd(s) ==
    IF s = <<>> THEN <<>>
    ELSE IF IsWhiteSpace(s[Len(s)]) THEN TrimEnd(SubSeq(s, 1, Len(s) - 1)) ELSE s

\* String.prototype.trim
Trim(s) == TrimEnd(TrimStart(s))

\* String.prototype.includes: t occurs in s as a contiguous block
Includes(s, t) ==
    \E i \in 0..(Len(s) - Len(t)) : SubSeq(s, i + 1, i + Len(t)) = t

(***************************************************************************)
(* Dates.  A date string is [text, day]: text "" is the empty string,      *)
(* "date" a well-formed YYYY-MM-DD naming day `day`, "bad" any other text. *)
(***************************************************************************)
NoDate      == [text |-> "", day |-> 0]
BadDate     == [text |-> "bad", day |-> 0]
DateStr(d)  == [text |-> "date", day |-> d]

\* new Date(s).getTime(): midnight of the day, or NaN
DateParse(s) ==
    IF s.text = "date" THEN [nan |-> FALSE, t |-> s.day * DayLen]
    ELSE [nan |-> TRUE, t |-> 0]

\* Math.ceil(a / b) for b > 0
CeilDiv(a, b) == -((-a) \div b)

PatentStatus == {"Active", "Expired", "UnderExamination"}

(***************************************************************************)
(* The alert effect.                                                       *)
(***************************************************************************)
\* variant: a record due today counts
InWindowBroken(diffDays) == diffDays >= 0 /\ diffDays <= WindowDays

\* diffDays > 0 && diffDays <= 90
InWindow(diffDays) == diffDays > 0 /\ diffDays <= WindowDays

\* the reducer of patents.reduce
AlertStep(acc, patent, today) ==
    IF patent.annuityDate.text = "" THEN acc
    ELSE LET due      == DateParse(patent.annuityDate)
             diffTime == due.t - today
             diffDays == CeilDiv(diffTime, DayLen)
         IN  IF ~due.nan /\ InWindow(diffDays) /\ patent.status = "Active"
             THEN acc + 1
             ELSE acc

RECURSIVE Reduce(_, _, _, _)
Reduce(ps, i, acc, today) ==
    IF i > Len(ps) THEN acc
    ELSE Reduce(ps, i + 1, AlertStep(acc, ps[i], today), today)

ComputeAlertCount(ps, today) == Reduce(ps, 1, 0, today)

(***************************************************************************)
(* The filtered view.                                                      *)
(***************************************************************************)
\* variant: the country is not searched
MatchesSearchNoCountry(patent, term) ==
    \/ Includes(patent.name, term)
    \/ Includes(patent.appNumber, term)
    \/ Includes(patent.pubNumber, term)
    \/ Includes(patent.patentee, term)

MatchesSearch(patent, term) ==
    \/ Includes(patent.name, term)
    \/ Includes(patent.appNumber, term)
    \/ Includes(patent.pubNumber, term)
    \/ Includes(patent.country, term)
    \/ Includes(patent.patentee, term)

MatchesStatus(patent, filter) == filter = "ALL" \/ patent.status = filter

RECURSIVE FilterSeq(_, _, _)
FilterSeq(ps, term, filter) ==
    IF ps = <<>> THEN <<>>
    ELSE LET rest == FilterSeq(Tail(ps), term, filter)
         IN  IF MatchesSearch(Head(ps), term) /\ MatchesStatus(Head(ps), filter)
             THEN <<Head(ps)>> \o rest
             ELSE rest

filteredPatents == FilterSeq(patents, searchTerm, statusFilter)

(***************************************************************************)
(* Import: the duplicate check of handleImportPatent.                      *)
(***************************************************************************)
\* new Set(patents.map(p => p.appNumber ? p.appNumber.trim() : null).filter(Boolean))
ExistingAppNumbers(ps) == {Trim(ps[i].appNumber) : i \in DOMAIN ps} \ {<<>>}

\* variant: only the names of the records without application number
ExistingNamesNoApp(ps) ==
    {Trim(ps[i].name) : i \in {j \in DOMAIN ps : Trim(ps[j].appNumber) = <<>>}} \ {<<>>}

\* new Set(patents.map(p => p.name ? p.name.trim() : null).filter(Boolean))
ExistingNames(ps) == {Trim(ps[i].name) : i \in DOMAIN ps} \ {<<>>}

\* variant: the application number as typed
AppNumberKeyRaw(p) == p.appNumber

\* p.appNumber.trim(), p.name.trim()
AppNumberKey(p) == Trim(p.appNumber)
NameKey(p)      == Trim(p.name)

\* p.appNumber && p.appNumber.trim()
HasAppNumber(p) == p.appNumber # <<>> /\ AppNumberKey(p) # <<>>

\* variant: the name tier also takes a blank name
HasNameAlways(p) == TRUE

\* p.name && p.name.trim()
HasName(p) == p.name # <<>> /\ NameKey(p) # <<>>

\* variant: an accepted key is not remembered
RegisterNothing(set, key) == set

\* existingAppNumbers.add(...), existingNames.add(...)
Register(set, key) == set \cup {key}

\* incomingPatents.filter(...), with the two sets it mutates as it goes
RECURSIVE ImportFilter(_, _, _, _, _)
ImportFilter(incoming, i, apps, names, acc) ==
    IF i > Len(incoming) THEN acc
    ELSE LET p == incoming[i]
         IN  IF HasAppNumber(p)
             THEN IF AppNumberKey(p) \in apps
                  THEN ImportFilter(incoming, i + 1, apps, names, acc)
                  ELSE ImportFilter(incoming, i + 1, Register(apps, AppNumberKey(p)),
                                    names, Append(acc, p))
             ELSE IF HasName(p)
             THEN IF NameKey(p) \in names
                  THEN ImportFilter(incoming, i + 1, apps, names, acc)
                  ELSE ImportFilter(incoming, i + 1, apps,
                                    Register(names, NameKey(p)), Append(acc, p))
             ELSE ImportFilter(incoming, i + 1, apps, names, Append(acc, p))

UniquePatents(ps, incoming) ==
    ImportFilter(incoming, 1, ExistingAppNumbers(ps), ExistingNames(ps), <<>>)

(***************************************************************************)
(* Records.  A row is the content of a record as a form or a spreadsheet   *)
(* line gives it; the record is the row with the id it is created with.    *)
(***************************************************************************)
\* a field the record does not have reads as undefined; no text is equal to
\* it, a text being a sequence of single characters
Undefined == <<"undefined">>

\* v || '' of the export row
OrEmpty(v) == IF v = Undefined \/ v = <<>> THEN <<>> ELSE v

\* a record without its id: the fields the handlers read, then the fields
\* that only the export reads
MkPatent(name, appNumber, pubNumber, country, patentee, status, annuityDate, notificationEmails, inventor, link) ==
    [name |-> name, appNumber |-> appNumber, pubNumber |-> pubNumber,
     country |-> country, patentee |-> patentee,
     status |-> status, annuityDate |-> annuityDate,
     type |-> <<"I">>, appDate |-> DateStr(0), pubDate |-> DateStr(0),
     duration |-> <<"2", "0">>, annuityYear |-> <<"1">>,
     notificationEmails |-> notificationEmails, inventor |-> inventor,
     link |-> link]

MkRow(name, appNumber, status, annuityDate) ==
    MkPatent(name, appNumber, <<"P">>, <<"T", "W">>, <<"X">>, status, annuityDate,
             <<"E">>, <<"I">>, <<"L">>)

Rows ==
    << MkRow(<<"A">>,      <<"1">>,      "Active",           DateStr(1)),
       MkRow(<<"B">>,      <<"1", " ">>, "Expired",          DateStr(30)),
       MkRow(<<" ", "A">>, <<" ">>,      "Active",           NoDate),
       MkRow(<<"B">>,      <<>>,         "Active",           DateStr(WindowDays + 1)),
       MkRow(<<" ">>,      <<>>,         "UnderExamination", BadDate) >>

WithId(row, id) ==
    [id |-> id, name |-> row.name, appNumber |-> row.appNumber,
     pubNumber |-> row.pubNumber, country |-> row.country,
     patentee |-> row.patentee, status |-> row.status,
     annuityDate |-> row.annuityDate,
     type |-> row.type, appDate |-> row.appDate, pubDate |-> row.pubDate,
     duration |-> row.duration, annuityYear |-> row.annuityYear,
     notificationEmails |-> row.notificationEmails, inventor |-> row.inventor,
     link |-> row.link]

\* ids are unique and never reused: the k-th record of a batch gets first + k - 1
AssignIds(rows, first) == [k \in DOMAIN rows |-> WithId(rows[k], first + k - 1)]

\* MOCK_PATENTS: the store the application starts with
InitialStores ==
    { <<>>,
      <<WithId(Rows[1], 1)>>,
      <<WithId(Rows[4], 2), WithId(Rows[1], 1)>> }

Batches == UNION {[1..n -> DOMAIN Rows] : n \in 1..MaxBatch}

\* window.alert(...) of the import handler: which message, with its two counts
NoAlert == [kind |-> "none", dup |-> 0, added |-> 0]

Did(op, batch) == [op |-> op, batch |-> batch, alert |-> NoAlert]

NoOp == Did("mount", <<>>)

(***************************************************************************)
(* The AI service (geminiService.ts).  An invocation runs to its await,    *)
(* waits for the generation call of the library, and goes on in its try    *)
(* or its catch when that call has returned a response or has failed.  The *)
(* library is outside the program: what the call does is any of its        *)
(* outcomes.  A missing credential is one of the failures of the call: the *)
(* client is built from the key, the empty text when none is configured    *)
(* (vite.config.ts:15), and the request is then refused.                   *)
(***************************************************************************)
Slots == 1..MaxCalls

\* the values a promise of the service is settled with
JSUndefined      == [type |-> "undefined", text |-> <<>>, fields |-> <<>>]
JSNull           == [type |-> "null",      text |-> <<>>, fields |-> <<>>]
JSString(text)   == [type |-> "string",    text |-> text, fields |-> <<>>]
JSObject(fields) == [type |-> "object",    text |-> <<>>, fields |-> fields]

\* "抱歉，我現在無法回答您的問題。"
NoAnswerMessage == <<"N", "o", "A", "n", "s", "w", "e", "r">>

\* "發生錯誤，請檢查您的網路連線或 API Key 設定。"
ErrorMessage == <<"E", "r", "r", "o", "r">>

\* what the awaited call of the library did
NoOutcome      == [kind |-> "none",        text |-> <<>>]
CreateThrew    == [kind |-> "createThrew", text |-> <<>>]
Rejected       == [kind |-> "rejected",    text |-> <<>>]
Response(text) == [kind |-> "response",    text |-> text]

\* how a block of code ends
Return(v) == [threw |-> FALSE, value |-> v]
Throw     == [threw |-> TRUE,  value |-> JSUndefined]

\* text || d
TextOr(text, d) == IF text = Undefined \/ text = <<>> THEN d ELSE text

\* the try block of sendMessageToGemini after the await
SendMessageTry(r) ==
    IF r.kind = "response"
    THEN Return(JSString(TextOr(r.text, NoAnswerMessage)))
    ELSE Throw

\* variant: the error is thrown on
SendMessageCatchRethrow(res) == res

\* the catch block of sendMessageToGemini
SendMessageCatch(res) == IF res.threw THEN Return(JSString(ErrorMessage)) ELSE res

\* JSON.parse on the texts of the model: null, a string, and an object of
\* no member or of one member whose value is a string; anything else is a
\* SyntaxError
Quote == "\""

IsStringLiteral(t) ==
    /\ Len(t) >= 2
    /\ t[1] = Quote
    /\ t[Len(t)] = Quote
    /\ \A i \in 2..(Len(t) - 1) : t[i] # Quote

StringOf(t) == SubSeq(t, 2, Len(t) - 1)

Colons(t) ==
    { i \in DOMAIN t : /\ t[i] = ":"
                       /\ IsStringLiteral(SubSeq(t, 1, i - 1))
                       /\ IsStringLiteral(SubSeq(t, i + 1, Len(t))) }

MemberOf(t) ==
    LET i == CHOOSE i \in Colons(t) : TRUE
    IN  <<StringOf(SubSeq(t, 1, i - 1)), StringOf(SubSeq(t, i + 1, Len(t)))>>

JSONParse(t) ==
    IF t = <<"n", "u", "l", "l">> THEN Return(JSNull)
    ELSE IF IsStringLiteral(t) THEN Return(JSString(StringOf(t)))
    ELSE IF Len(t) >= 2 /\ t[1] = "{" /\ t[Len(t)] = "}"
    THEN LET members == SubSeq(t, 2, Len(t) - 1)
         IN  IF members = <<>> THEN Return(JSObject(<<>>))
             ELSE IF Colons(members) # {} THEN Return(JSObject(<<MemberOf(members)>>))
             ELSE Throw
    ELSE Throw

\* the try block of parsePatentFromText and parsePatentFromFile after the await
ParseTry(r) ==
    IF r.kind = "response"
    THEN IF r.text # Undefined /\ r.text # <<>>
         THEN JSONParse(r.text)
         ELSE Return(JSNull)
    ELSE Throw

\* variant: an empty record stands in for the failed result
ParseCatchPlaceholder(res) == IF res.threw THEN Return(JSObject(<<>>)) ELSE res

\* the catch block of parsePatentFromText and parsePatentFromFile
ParseCatch(res) == IF res.threw THEN Return(JSNull) ELSE res

\* the promise of an async function whose body ended as res
Pending     == [state |-> "pending", value |-> JSUndefined]
Settle(res) == [state |-> IF res.threw THEN "rejected" ELSE "fulfilled",
                value |-> res.value]

\* the prompt of the chat: the question, after the records in view if any
NoMessage == [context |-> <<>>, question |-> <<>>]

FullMessage(message, contextPatents) ==
    IF Len(contextPatents) > 0
    THEN [context |-> [k \in DOMAIN contextPatents |-> contextPatents[k].id],
          question |-> message]
    ELSE [context |-> <<>>, question |-> message]

\* an invocation: the function, where it stands, the requests it has made,
\* what the library did, its promise and how often that was settled
IdleCall ==
    [fn |-> "none", pc |-> "Idle", requests |-> 0, message |-> NoMessage,
     outcome |-> NoOutcome, promise |-> Pending, settles |-> 0]

Sent(fn, message) ==
    [fn |-> fn, pc |-> "Sending", requests |-> 1, message |-> message,
     outcome |-> NoOutcome, promise |-> Pending, settles |-> 0]

\* the invocation ends: in the try (Answered) or in the catch (Failed)
Settled(call, r, tried, res) ==
    [call EXCEPT !.outcome = r,
                 !.pc = IF tried.threw THEN "Failed" ELSE "Answered",
                 !.promise = Settle(res),
                 !.settles = @ + 1]

AIInit ==
    /\ chatSession = "null"
    /\ calls = [c \in Slots |-> IdleCall]

\* getChatSession, then the prompt, then chat.sendMessage.  ai.chats.create
\* of an invocation that finds no session may throw: no request is made, and
\* the catch is what runs next
sendMessageToGemini(c, message, contextPatents, createThrows) ==
    /\ calls[c].pc = "Idle"
    /\ IF chatSession = "null" /\ createThrows
       THEN /\ chatSession' = chatSession
            /\ calls' = [calls EXCEPT ![c] =
                  [Sent("sendMessageToGemini", NoMessage)
                      EXCEPT !.requests = 0, !.outcome = CreateThrew]]
       ELSE /\ chatSession' = "chat"
            /\ calls' = [calls EXCEPT ![c] =
                  Sent("sendMessageToGemini", FullMessage(message, contextPatents))]
    /\ UNCHANGED appVars

\* the invocation goes on with r: what chat.sendMessage did, or the error
\* thrown before it
SendMessageResumes(c, r) ==
    /\ calls[c].fn = "sendMessageToGemini"
    /\ calls[c].pc = "Sending"
    /\ (r = CreateThrew) = (calls[c].outcome = CreateThrew)

\* variant: a refused request is sent once more
SendMessageSettlesRetry(c, r) ==
    /\ SendMessageResumes(c, r)
    /\ calls' = [calls EXCEPT ![c] =
          IF r.kind = "rejected" /\ calls[c].requests = 1
          THEN [calls[c] EXCEPT !.requests = @ + 1]
          ELSE Settled(calls[c], r, SendMessageTry(r),
                       SendMessageCatch(SendMessageTry(r)))]
    /\ UNCHANGED <<chatSession, appVars>>

\* the rest of the try, or the catch
SendMessageSettles(c, r) ==
    /\ SendMessageResumes(c, r)
    /\ calls' = [calls EXCEPT ![c] =
          Settled(calls[c], r, SendMessageTry(r),
                  SendMessageCatch(SendMessageTry(r)))]
    /\ UNCHANGED <<chatSession, appVars>>

\* the prompt, then ai.models.generateContent
parsePatentFromText(c) ==
    /\ calls[c].pc = "Idle"
    /\ calls' = [calls EXCEPT ![c] = Sent("parsePatentFromText", NoMessage)]
    /\ UNCHANGED <<chatSession, appVars>>

parsePatentFromFile(c) ==
    /\ calls[c].pc = "Idle"
    /\ calls' = [calls EXCEPT ![c] = Sent("parsePatentFromFile", NoMessage)]
    /\ UNCHANGED <<chatSession, appVars>>

\* ai.models.generateContent has returned r
ParseSettles(c, r) ==
    /\ calls[c].fn \in {"parsePatentFromText", "parsePatentFromFile"}
    /\ calls[c].pc = "Sending"
    /\ calls' = [calls EXCEPT ![c] =
          Settled(calls[c], r, ParseTry(r), ParseCatch(ParseTry(r)))]
    /\ UNCHANGED <<chatSession, appVars>>

\* the caller has taken the result
Await(c) ==
    /\ calls[c].pc \in {"Answered", "Failed"}
    /\ calls' = [calls EXCEPT ![c] = IdleCall]
    /\ UNCHANGED <<chatSession, appVars>>

(***************************************************************************)
(* The application.                                                        *)
(***************************************************************************)
Init ==
    /\ patents \in InitialStores
    /\ viewMode = "dashboard"
    /\ searchTerm = <<>>
    /\ statusFilter = "ALL"
    /\ patentToDelete = <<>>
    /\ isDeleteModalOpen = FALSE
    /\ alertCount = 0
    /\ effectPending = TRUE
    /\ now = 0
    /\ nextId = Len(patents) + 1
    /\ last = NoOp
    /\ AIInit

\* A handler of the page runs once the pending effect has run (effects are
\* flushed before the next user event) and while the confirmation dialog, which
\* covers the page, is closed.
EffectsFlushed == ~effectPending
Interactive    == EffectsFlushed /\ ~isDeleteModalOpen

\* variant: the effect runs and keeps the count it finds
AlertEffectStale ==
    /\ effectPending
    /\ effectPending' = FALSE
    /\ UNCHANGED <<patents, viewMode, searchTerm, statusFilter, patentToDelete,
                   isDeleteModalOpen, alertCount, now, nextId, last>>
    /\ UNCHANGED aiVars

\* useEffect(..., [patents]): runs after the render that follows a store change
AlertEffect ==
    /\ effectPending
    /\ alertCount' = ComputeAlertCount(patents, now)
    /\ effectPending' = FALSE
    /\ UNCHANGED <<patents, viewMode, searchTerm, statusFilter, patentToDelete,
                   isDeleteModalOpen, now, nextId, last>>
    /\ UNCHANGED aiVars

Tick ==
    /\ now < MaxNow
    /\ now' = now + 1
    /\ UNCHANGED <<patents, viewMode, searchTerm, statusFilter, patentToDelete,
                   isDeleteModalOpen, alertCount, effectPending, nextId, last>>
    /\ UNCHANGED aiVars

SetViewMode(m) ==
    /\ Interactive
    /\ viewMode' = m
    /\ last' = Did("setViewMode", <<>>)
    /\ UNCHANGED <<patents, searchTerm, statusFilter, patentToDelete,
                   isDeleteModalOpen, alertCount, effectPending, now, nextId>>
    /\ UNCHANGED aiVars

\* onChange of the search box and of the status select
SetSearchTerm(t) ==
    /\ Interactive
    /\ searchTerm' = t
    /\ last' = Did("setSearchTerm", <<>>)
    /\ UNCHANGED <<patents, viewMode, statusFilter, patentToDelete,
                   isDeleteModalOpen, alertCount, effectPending, now, nextId>>
    /\ UNCHANGED aiVars

SetStatusFilter(f) ==
    /\ Interactive
    /\ statusFilter' = f
    /\ last' = Did("setStatusFilter", <<>>)
    /\ UNCHANGED <<patents, viewMode, searchTerm, patentToDelete,
                   isDeleteModalOpen, alertCount, effectPending, now, nextId>>
    /\ UNCHANGED aiVars

handleDeleteClick(patent) ==
    /\ Interactive
    /\ patentToDelete' = <<patent>>
    /\ isDeleteModalOpen' = TRUE
    /\ last' = Did("deleteClick", <<>>)
    /\ UNCHANGED <<patents, viewMode, searchTerm, statusFilter, alertCount,
                   effectPending, now, nextId>>
    /\ UNCHANGED aiVars

\* variant: the test of the filter is inverted
RemoveByIdInverted(ps, id) == SelectSeq(ps, LAMBDA p : p.id = id)

\* prev.filter(p => String(p.id) !== String(patentToDelete.id))
RemoveById(ps, id) == SelectSeq(ps, LAMBDA p : p.id # id)

handleConfirmDelete ==
    /\ EffectsFlushed
    /\ last' = Did("confirmDelete", patentToDelete)
    /\ IF patentToDelete # <<>>
       THEN /\ patents' = RemoveById(patents, patentToDelete[1].id)
            /\ patentToDelete' = <<>>
            /\ isDeleteModalOpen' = FALSE
            /\ effectPending' = TRUE
       ELSE UNCHANGED <<patents, patentToDelete, isDeleteModalOpen, effectPending>>
    /\ UNCHANGED <<viewMode, searchTerm, statusFilter, alertCount, now, nextId>>
    /\ UNCHANGED aiVars

\* DeleteConfirmModal onClose
DeleteModalClose ==
    /\ EffectsFlushed
    /\ isDeleteModalOpen
    /\ isDeleteModalOpen' = FALSE
    /\ patentToDelete' = <<>>
    /\ last' = Did("deleteCancel", <<>>)
    /\ UNCHANGED <<patents, viewMode, searchTerm, statusFilter, alertCount,
                   effectPending, now, nextId>>
    /\ UNCHANGED aiVars

\* variant: the accepted records go to the end
PrependWrong(uniquePatents, prev) == prev \o uniquePatents

\* setPatents(prev => [...uniquePatents, ...prev])
Prepend(uniquePatents, prev) == uniquePatents \o prev

\* the alert(...) calls of step 3
ImportAlert(incomingPatents, uniquePatents) ==
    LET duplicateCount == Len(incomingPatents) - Len(uniquePatents)
    IN  IF Len(uniquePatents) = 0
        THEN [kind |-> IF Len(incomingPatents) = 1 THEN "exists" ELSE "allExist",
              dup |-> duplicateCount, added |-> 0]
        ELSE IF duplicateCount > 0
        THEN [kind |-> "filtered", dup |-> duplicateCount, added |-> Len(uniquePatents)]
        ELSE NoAlert

\* variant: no early return when nothing was accepted
handleImportPatentNoReturn(newData) ==
    LET incomingPatents == newData
        uniquePatents   == UniquePatents(patents, incomingPatents)
    IN  /\ Interactive
        /\ last' = [op |-> "import", batch |-> incomingPatents,
                    alert |-> ImportAlert(incomingPatents, uniquePatents)]
        /\ patents' = Prepend(uniquePatents, patents)
        /\ viewMode' = "list"
        /\ effectPending' = TRUE
        /\ UNCHANGED <<searchTerm, statusFilter, patentToDelete,
                       isDeleteModalOpen, alertCount, now>>
        /\ UNCHANGED aiVars

handleImportPatent(newData) ==
    LET incomingPatents == newData
        uniquePatents   == UniquePatents(patents, incomingPatents)
    IN  /\ Interactive
        /\ last' = [op |-> "import", batch |-> incomingPatents,
                    alert |-> ImportAlert(incomingPatents, uniquePatents)]
        /\ IF Len(uniquePatents) = 0
           THEN UNCHANGED <<patents, viewMode, effectPending>>
           ELSE /\ patents' = Prepend(uniquePatents, patents)
                /\ viewMode' = "list"
                /\ effectPending' = TRUE
        /\ UNCHANGED <<searchTerm, statusFilter, patentToDelete,
                       isDeleteModalOpen, alertCount, now>>
        /\ UNCHANGED aiVars

\* the import modal builds the records of a batch and hands them over
Import(b) ==
    /\ nextId + Len(b) - 1 <= MaxId
    /\ nextId' = nextId + Len(b)
    /\ handleImportPatent(AssignIds([k \in DOMAIN b |-> Rows[b[k]]], nextId))

\* variant: a record that is not in the store is added to it
ReplaceByIdUpsert(ps, updatedPatent) ==
    IF \E i \in DOMAIN ps : ps[i].id = updatedPatent.id
    THEN [i \in DOMAIN ps |-> IF ps[i].id = updatedPatent.id THEN updatedPatent ELSE ps[i]]
    ELSE Append(ps, updatedPatent)

\* variant: the test of the map is inverted
ReplaceByIdInverted(ps, updatedPatent) ==
    [i \in DOMAIN ps |-> IF ps[i].id # updatedPatent.id THEN updatedPatent ELSE ps[i]]

\* prev.map(p => p.id === updatedPatent.id ? updatedPatent : p)
ReplaceById(ps, updatedPatent) ==
    [i \in DOMAIN ps |-> IF ps[i].id = updatedPatent.id THEN updatedPatent ELSE ps[i]]

handleUpdatePatent(updatedPatent) ==
    /\ Interactive
    /\ patents' = ReplaceById(patents, updatedPatent)
    /\ effectPending' = TRUE
    /\ last' = Did("update", <<updatedPatent>>)
    /\ UNCHANGED <<viewMode, searchTerm, statusFilter, patentToDelete,
                   isDeleteModalOpen, alertCount, now, nextId>>
    /\ UNCHANGED aiVars

\* one row of exportData; the columns carry the labels of the sheet
\* (name is "專利名稱", patentee "專利權人", ..., link "連結")
ExportRow(p) ==
    [name |-> p.name, patentee |-> p.patentee, country |-> p.country,
     status |-> p.status, type |-> p.type, appNumber |-> p.appNumber,
     pubNumber |-> p.pubNumber, appDate |-> p.appDate, pubDate |-> p.pubDate,
     duration |-> p.duration, annuityDate |-> p.annuityDate,
     annuityYear |-> p.annuityYear,
     notificationEmails |-> OrEmpty(p.notificationEmails),
     inventor |-> p.inventor,
     link |-> OrEmpty(p.link)]

\* filteredPatents.map(p => ({...}))
ExportData(view) == [k \in DOMAIN view |-> ExportRow(view[k])]

\* the rows handed to XLSX.utils.json_to_sheet are kept in `last`
handleExport ==
    /\ Interactive
    /\ last' = Did("export", ExportData(filteredPatents))
    /\ UNCHANGED <<patents, viewMode, searchTerm, statusFilter, patentToDelete,
                   isDeleteModalOpen, alertCount, effectPending, now, nextId>>
    /\ UNCHANGED aiVars

(***************************************************************************)
(* The store and its handlers.  Each handler runs to its end before the    *)
(* next event, and the component is rendered again in between, so the      *)
(* `patents` a handler closes over is the store its updater receives.  The *)
(* search box and the status select stay as mounted here; they are moved   *)
(* in SpecFilter below.                                                    *)
(***************************************************************************)
\* what the edit form saves: an Active record due soon, an Expired record,
\* an Active record due after the window, under any id
UpdateRows == {1, 2, 4}

Next ==
    \/ AlertEffect
    \/ Tick
    \/ \E m \in {"dashboard", "list"} : SetViewMode(m)
    \/ \E i \in DOMAIN filteredPatents : handleDeleteClick(filteredPatents[i])
    \/ handleConfirmDelete
    \/ DeleteModalClose
    \/ \E b \in Batches : Import(b)
    \/ \E id \in 1..MaxId, r \in UpdateRows : handleUpdatePatent(WithId(Rows[r], id))

Spec == Init /\ [][Next]_vars

(***************************************************************************)
(* The alert rule on its own: any store of dated records, any instant of   *)
(* two days; the effect runs and the clock moves.                          *)
(***************************************************************************)
AlertDays == {-1, 0, 1, 2, WindowDays, WindowDays + 1, WindowDays + 2}

AlertRows ==
    { MkRow(<<"A">>, <<"1">>, st, d) :
        st \in PatentStatus,
        d \in {NoDate, BadDate} \cup {DateStr(n) : n \in AlertDays} }

SeqsUpTo(S, n) == UNION {[1..k -> S] : k \in 0..n}

InitAlert ==
    /\ \E rows \in SeqsUpTo(AlertRows, MaxAlertStore) :
          /\ patents = AssignIds(rows, 1)
          /\ nextId = Len(rows) + 1
    /\ now \in 0..(2 * DayLen - 1)
    /\ viewMode = "dashboard"
    /\ searchTerm = <<>>
    /\ statusFilter = "ALL"
    /\ patentToDelete = <<>>
    /\ isDeleteModalOpen = FALSE
    /\ alertCount = 0
    /\ effectPending = TRUE
    /\ last = NoOp
    /\ AIInit

NextAlert ==
    \/ AlertEffect
    \/ Tick

SpecAlert == InitAlert /\ [][NextAlert]_vars

(***************************************************************************)
(* The filtered view on its own: any store over records that differ in     *)
(* each searched field, any search term, any status filter.                *)
(***************************************************************************)
MkFilterRow(name, appNumber, pubNumber, country, patentee, status) ==
    MkPatent(name, appNumber, pubNumber, country, patentee, status, NoDate,
             <<"E">>, <<"I">>, <<"L">>)

FilterRows ==
    { MkFilterRow(<<"A", "b">>, <<"1">>, <<"P">>, <<"T", "W">>, <<"X">>, "Active"),
      MkFilterRow(<<"B">>,      <<"2">>, <<"Q">>, <<"U", "S">>, <<"Y">>, "Expired"),
      MkFilterRow(<<"t", "w">>, <<>>,    <<>>,    <<>>,         <<>>,    "UnderExamination"),
      MkFilterRow(<<"B">>,      <<"2">>, <<"Q">>, <<"T", "W">>, <<"Y">>, "Active") }

SearchTerms ==
    { <<>>, <<"T">>, <<"t">>, <<"T", "W">>, <<"W", "T">>, <<"b">>, <<"2">>, <<"Q">>, <<"Y">> }

StatusFilters == PatentStatus \cup {"ALL"}

InitFilter ==
    /\ \E rows \in SeqsUpTo(FilterRows, MaxFilterStore) :
          /\ patents = AssignIds(rows, 1)
          /\ nextId = Len(rows) + 1
    /\ now = 0
    /\ viewMode = "dashboard"
    /\ searchTerm = <<>>
    /\ statusFilter = "ALL"
    /\ patentToDelete = <<>>
    /\ isDeleteModalOpen = FALSE
    /\ alertCount = 0
    /\ effectPending = TRUE
    /\ last = NoOp
    /\ AIInit

NextFilter ==
    \/ AlertEffect
    \/ \E t \in SearchTerms : SetSearchTerm(t)
    \/ \E f \in StatusFilters : SetStatusFilter(f)

SpecFilter == InitFilter /\ [][NextFilter]_vars

(***************************************************************************)
(* The export on its own: any store over records that have or lack each of *)
(* the fields a record may lack, any view of it, exported.                 *)
(***************************************************************************)
ExportRows ==
    { MkPatent(name, <<"1">>, <<"P">>, <<"T", "W">>, <<"X">>,
               IF name = <<"A">> THEN "Active" ELSE "Expired", NoDate,
               notificationEmails, inventor, link) :
        name \in {<<"A">>, <<"B">>},
        notificationEmails \in {Undefined, <<"E">>},
        inventor \in {Undefined, <<"I">>},
        link \in {Undefined, <<>>, <<"L">>} }

InitExport ==
    /\ \E rows \in SeqsUpTo(ExportRows, MaxExportStore) :
          /\ patents = AssignIds(rows, 1)
          /\ nextId = Len(rows) + 1
    /\ now = 0
    /\ viewMode = "dashboard"
    /\ searchTerm = <<>>
    /\ statusFilter = "ALL"
    /\ patentToDelete = <<>>
    /\ isDeleteModalOpen = FALSE
    /\ alertCount = 0
    /\ effectPending = TRUE
    /\ last = NoOp
    /\ AIInit

NextExport ==
    \/ AlertEffect
    \/ \E t \in {<<>>, <<"A">>} : SetSearchTerm(t)
    \/ \E f \in {"ALL", "Expired"} : SetStatusFilter(f)
    \/ handleExport

SpecExport == InitExport /\ [][NextExport]_vars

(***************************************************************************)
(* The AI service on its own: invocations of the chat and of the two       *)
(* parsers, with every outcome of the library's call.                      *)
(***************************************************************************)
Questions == { <<"Q">> }

ChatTexts == { Undefined, <<>>, <<"o", "k">> }

JSONObjectText == <<"{", Quote, "n", Quote, ":", Quote, "A", Quote, "}">>
JSONTruncated  == <<"{", Quote, "n", Quote, ":">>

ParseTexts ==
    { Undefined, <<>>, JSONObjectText, <<"{", "}">>, <<"n", "u", "l", "l">>,
      JSONTruncated, <<"n", "o">> }

ChatResponses  == {CreateThrew, Rejected} \cup {Response(t) : t \in ChatTexts}
ParseResponses == {Rejected} \cup {Response(t) : t \in ParseTexts}

NextGemini ==
    \/ \E c \in Slots, q \in Questions, t \in BOOLEAN :
          sendMessageToGemini(c, q, filteredPatents, t)
    \/ \E c \in Slots, r \in ChatResponses : SendMessageSettles(c, r)
    \/ \E c \in Slots : parsePatentFromText(c)
    \/ \E c \in Slots : parsePatentFromFile(c)
    \/ \E c \in Slots, r \in ParseResponses : ParseSettles(c, r)
    \/ \E c \in Slots : Await(c)

SpecGemini == Init /\ [][NextGemini]_vars

\* the call of the library completes or fails in the end
SpecGeminiFair ==
    /\ SpecGemini
    /\ \A c \in Slots : WF_vars(\E r \in ChatResponses : SendMessageSettles(c, r))
    /\ \A c \in Slots : WF_vars(\E r \in ParseResponses : ParseSettles(c, r))

(***************************************************************************)
(* The page as a whole: the handlers of the store, the search box, the     *)
(* status select and the view switch.  React runs a scheduled effect after *)
(* the render that scheduled it, so the alert effect is not put off for    *)
(* ever.                                                                   *)
(***************************************************************************)
PageRows == {1, 2, 4}

NextPage ==
    \/ AlertEffect
    \/ Tick
    \/ SetViewMode("dashboard")
    \/ \E t \in {<<>>, <<"A">>} : SetSearchTerm(t)
    \/ \E f \in {"ALL", "Expired"} : SetStatusFilter(f)
    \/ \E i \in DOMAIN filteredPatents : handleDeleteClick(filteredPatents[i])
    \/ handleConfirmDelete
    \/ DeleteModalClose
    \/ \E r \in PageRows : Import(<<r>>)
    \/ \E id \in 1..MaxId, r \in UpdateRows : handleUpdatePatent(WithId(Rows[r], id))

SpecPage == Init /\ [][NextPage]_vars /\ WF_vars(AlertEffect)

(***************************************************************************)
(* Claims.                                                                 *)
(***************************************************************************)
\* the step in which the alert effect runs
EffectStep == effectPending /\ ~effectPending'

\* the ceiling of x / DayLen, by its defining property
CeilOf(x) ==
    CHOOSE n \in -(WindowDays + 10)..(WindowDays + 10) :
        n * DayLen >= x /\ (n - 1) * DayLen < x

\* the records the 90-day rule names: dated, Active, 0 < ceil((due - t) / day) <= 90
\* (a date text that is no date has no difference to compare, and fails both tests)
DueSoon(ps, t) ==
    { i \in DOMAIN ps :
        /\ ps[i].annuityDate.text = "date"
        /\ ps[i].status = "Active"
        /\ 0 < CeilOf(ps[i].annuityDate.day * DayLen - t)
        /\ CeilOf(ps[i].annuityDate.day * DayLen - t) <= WindowDays }

\* the Active records due N days after the day of instant t, 1 <= N <= 90
DueInDays(ps, t) ==
    { i \in DOMAIN ps :
        /\ ps[i].annuityDate.text = "date"
        /\ ps[i].status = "Active"
        /\ 1 <= ps[i].annuityDate.day - (t \div DayLen)
        /\ ps[i].annuityDate.day - (t \div DayLen) <= WindowDays }

\* C1: whenever the alert effect runs, the count it stores is the number of
\* records that have an annuity date, are Active and are due in more than 0 and
\* at most 90 days (rounded up) from the instant the effect reads; this is the
\* number of Active records due N days after the current day with 1 <= N <= 90,
\* so a record due today (N = 0), due in 91 days, undated or not Active is
\* never counted.
C1_AlertCount ==
    [][EffectStep =>
          /\ alertCount' = Cardinality(DueSoon(patents, now))
          /\ alertCount' = Cardinality(DueInDays(patents, now))]_vars

\* the effect has run in the middle of a day on a store with an Active record
\* due in 90 days and an Active record due in 91 days, and counted one
C1_Witness ==
    /\ ~effectPending
    /\ now % DayLen # 0
    /\ alertCount = 1
    /\ Len(patents) = 2
    /\ \E i, j \in DOMAIN patents :
          /\ patents[i].status = "Active" /\ patents[j].status = "Active"
          /\ patents[i].annuityDate = DateStr((now \div DayLen) + WindowDays)
          /\ patents[j].annuityDate = DateStr((now \div DayLen) + WindowDays + 1)

(***************************************************************************)
(* Import steps.  Only an import takes ids, and every import takes one per *)
(* record, so the import steps are the steps that move nextId.  In such a  *)
(* step `patents` is the store before, last'.batch the records handed to   *)
(* handleImportPatent and patents' the store after.  The ids of a batch    *)
(* are new, so a record of the batch is in the store after the step iff it *)
(* was accepted.                                                           *)
(***************************************************************************)
ImportStep == nextId' # nextId /\ last'.op = "import"

Range(seq) == {seq[i] : i \in DOMAIN seq}

Blank(str) == \A i \in DOMAIN str : str[i] = " "

\* the text without the blanks at its two ends, by its defining property
IsTrimOf(t, str) ==
    /\ \E a, b \in 0..Len(str) :
          /\ a + Len(t) + b = Len(str)
          /\ \A k \in 1..Len(t) : t[k] = str[a + k]
          /\ \A k \in 1..a : str[k] = " "
          /\ \A k \in (Len(str) - b + 1)..Len(str) : str[k] = " "
    /\ (t # <<>> => t[1] # " " /\ t[Len(t)] # " ")

\* two texts that are equal once trimmed
SameTrimmed(s1, s2) ==
    \E t \in {SubSeq(s1, a, b) : a \in 1..(Len(s1) + 1), b \in 0..Len(s1)} :
        IsTrimOf(t, s1) /\ IsTrimOf(t, s2)

C3_AppNumberRule ==
    [][ImportStep =>
          LET b == last'.batch
              Accepted(k) == b[k] \in Range(patents')
              Collides(k) ==
                  \/ \E i \in DOMAIN patents :
                        SameTrimmed(patents[i].appNumber, b[k].appNumber)
                  \/ \E j \in 1..(k - 1) :
                        Accepted(j) /\ SameTrimmed(b[j].appNumber, b[k].appNumber)
          IN  /\ \A k \in DOMAIN b :
                    ~Blank(b[k].appNumber) => (~Accepted(k) <=> Collides(k))
              /\ \A j, k \in DOMAIN b :
                    ( /\ j < k
                      /\ ~Blank(b[j].appNumber)
                      /\ SameTrimmed(b[j].appNumber, b[k].appNumber)
                      /\ \A i \in DOMAIN patents :
                            ~SameTrimmed(patents[i].appNumber, b[j].appNumber)
                      /\ \A h \in 1..(j - 1) :
                            ~SameTrimmed(b[h].appNumber, b[j].appNumber) )
                    => Accepted(j) /\ ~Accepted(k)]_vars

\* a batch of two records whose application numbers differ as typed and are
\* equal once trimmed has just been imported: the first is stored, the second not
C3_Witness ==
    /\ last.op = "import"
    /\ Len(last.batch) = 2
    /\ last.batch[1].appNumber # last.batch[2].appNumber
    /\ ~Blank(last.batch[1].appNumber)
    /\ SameTrimmed(last.batch[1].appNumber, last.batch[2].appNumber)
    /\ last.batch[1] \in Range(patents)
    /\ last.batch[2] \notin Range(patents)

\* C4: in an import, a record with a blank application number and a non-blank
\* name is rejected whenever its trimmed name is the trimmed name of a record
\* already in the store.
C4_NameRuleAgainstStore ==
    [][ImportStep =>
          LET b == last'.batch
          IN  \A k \in DOMAIN b :
                  ( /\ Blank(b[k].appNumber)
                    /\ ~Blank(b[k].name)
                    /\ \E i \in DOMAIN patents :
                          SameTrimmed(patents[i].name, b[k].name) )
                  => b[k] \notin Range(patents')]_vars

\* a record with a whitespace application number has just been rejected: its
\* name, typed differently, trims to the name of a stored record that has an
\* application number
C4_Witness ==
    /\ last.op = "import"
    /\ \E k \in DOMAIN last.batch, i \in DOMAIN patents :
          /\ last.batch[k].appNumber # <<>>
          /\ Blank(last.batch[k].appNumber)
          /\ ~Blank(last.batch[k].name)
          /\ last.batch[k] \notin Range(patents)
          /\ patents[i] \notin Range(last.batch)
          /\ ~Blank(patents[i].appNumber)
          /\ patents[i].name # last.batch[k].name
          /\ SameTrimmed(patents[i].name, last.batch[k].name)

\* C5: in an import, a record with a blank application number and a non-blank
\* name is rejected whenever its trimmed name is the trimmed name of a record
\* accepted earlier in the same batch, whichever tier accepted that record.
C5_NameRuleWithinBatch ==
    [][ImportStep =>
          LET b == last'.batch
          IN  \A k \in DOMAIN b :
                  ( /\ Blank(b[k].appNumber)
                    /\ ~Blank(b[k].name)
                    /\ \E j \in 1..(k - 1) :
                          /\ b[j] \in Range(patents')
                          /\ SameTrimmed(b[j].name, b[k].name) )
                  => b[k] \notin Range(patents')]_vars

\* the content of a record: every field but the id
RowOf(p) == [f \in (DOMAIN p) \ {"id"} |-> p[f]]

\* C6: importing the same single record twice in succession, the record having a
\* non-blank application number or a non-blank name, leaves one copy of it: the
\* second import is rejected, the store after it is the store after the first,
\* and a record the first import accepted is stored exactly once.
C6_ImportTwice ==
    [][( /\ ImportStep
         /\ last.op = "import"
         /\ Len(last.batch) = 1 /\ Len(last'.batch) = 1
         /\ RowOf(last'.batch[1]) = RowOf(last.batch[1])
         /\ (~Blank(last.batch[1].appNumber) \/ ~Blank(last.batch[1].name)) )
       => /\ patents' = patents
          /\ last'.batch[1] \notin Range(patents')
          /\ last'.alert = [kind |-> "exists", dup |-> 1, added |-> 0]
          /\ last.batch[1] \in Range(patents) =>
                Cardinality({i \in DOMAIN patents' :
                                RowOf(patents'[i]) = RowOf(last.batch[1])}) = 1]_vars

\* a single record has just been imported and rejected, and the record created
\* just before it, of the same content, is in the store, once
C6_Witness ==
    /\ last.op = "import"
    /\ Len(last.batch) = 1
    /\ last.batch[1] \notin Range(patents)
    /\ Len(patents) >= 2
    /\ \E i \in DOMAIN patents :
          /\ patents[i].id = last.batch[1].id - 1
          /\ RowOf(patents[i]) = RowOf(last.batch[1])
    /\ Cardinality({i \in DOMAIN patents : RowOf(patents[i]) = RowOf(last.batch[1])}) = 1

\* C7: a blank key never causes a rejection.  In an import every record whose
\* application number and name are both blank is accepted, so a batch of N such
\* records adds N records whatever the store holds; and a record with a blank
\* application number and a non-blank name borne by no stored record and by no
\* earlier record of the batch is accepted, so two such records of different
\* names are both accepted.
C7_BlankKeyNeverRejects ==
    [][ImportStep =>
          LET b == last'.batch
              BothBlank(k) == Blank(b[k].appNumber) /\ Blank(b[k].name)
          IN  /\ \A k \in DOMAIN b : BothBlank(k) => b[k] \in Range(patents')
              /\ (\A k \in DOMAIN b : BothBlank(k)) =>
                    Len(patents') = Len(patents) + Len(b)
              /\ \A k \in DOMAIN b :
                    ( /\ Blank(b[k].appNumber)
                      /\ ~Blank(b[k].name)
                      /\ \A i \in DOMAIN patents :
                            ~SameTrimmed(patents[i].name, b[k].name)
                      /\ \A j \in 1..(k - 1) :
                            ~SameTrimmed(b[j].name, b[k].name) )
                    => b[k] \in Range(patents')]_vars

\* a batch of two records, both with blank application number and blank name,
\* has just been imported into a store that held a record: both are stored
C7_Witness ==
    /\ last.op = "import"
    /\ Len(last.batch) = 2
    /\ \A k \in 1..2 : Blank(last.batch[k].appNumber) /\ Blank(last.batch[k].name)
    /\ \A k \in 1..2 : last.batch[k] \in Range(patents)
    /\ Len(patents) = 3

\* C8: if handleImportPatent rejects every record of a batch, the store is left
\* as it was (same records, same order) and the view mode is not changed; so a
\* batch of one record whose application number is that of a stored record adds
\* nothing, whatever its name.
C8_AllRejected ==
    [][ImportStep =>
          LET b == last'.batch
          IN  /\ UniquePatents(patents, b) = <<>> =>
                    /\ patents' = patents
                    /\ viewMode' = viewMode
                    /\ last'.alert.added = 0 /\ last'.alert.dup = Len(b)
              /\ ( /\ Len(b) = 1
                   /\ ~Blank(b[1].appNumber)
                   /\ \E i \in DOMAIN patents :
                         SameTrimmed(patents[i].appNumber, b[1].appNumber) )
                 => patents' = patents /\ viewMode' = viewMode]_vars

\* on the dashboard, a store of one record: a record with the same application
\* number (once trimmed) and another name has just been imported and rejected
C8_Witness ==
    /\ last.op = "import"
    /\ Len(last.batch) = 1
    /\ last.alert = [kind |-> "exists", dup |-> 1, added |-> 0]
    /\ viewMode = "dashboard"
    /\ Len(patents) = 1
    /\ ~Blank(patents[1].appNumber)
    /\ SameTrimmed(patents[1].appNumber, last.batch[1].appNumber)
    /\ ~SameTrimmed(patents[1].name, last.batch[1].name)
    /\ patents[1].id # last.batch[1].id

\* C9: when an import accepts a record, the new store is the accepted records
\* in batch order followed by the previous store in its order, and the counts
\* of the message are those of the batch: rejected plus accepted is its size.
C9_Prepend ==
    [][(ImportStep /\ \E k \in DOMAIN last'.batch : last'.batch[k] \in Range(patents'))
       => LET b        == last'.batch
              new      == patents'
              accepted == SelectSeq(b, LAMBDA r : r \in Range(new))
              rejected == SelectSeq(b, LAMBDA r : r \notin Range(new))
          IN  /\ new = accepted \o patents
              /\ Len(rejected) + Len(accepted) = Len(b)
              /\ last'.alert =
                    IF Len(rejected) = 0 THEN NoAlert
                    ELSE [kind |-> "filtered", dup |-> Len(rejected),
                          added |-> Len(accepted)]]_vars

\* a batch of two has just been imported into a store that held a record: its
\* first record was rejected, its second leads the store, the old record follows
C9_Witness ==
    /\ last.op = "import"
    /\ Len(last.batch) = 2
    /\ last.alert = [kind |-> "filtered", dup |-> 1, added |-> 1]
    /\ Len(patents) = 2
    /\ patents[1] = last.batch[2]
    /\ last.batch[1] \notin Range(patents)
    /\ patents[2] \notin Range(last.batch)

\* t occurs in str, character for character, at some offset
OccursIn(t, str) ==
    \E a \in 0..Len(str) :
        /\ a + Len(t) <= Len(str)
        /\ \A k \in 1..Len(t) : str[a + k] = t[k]

SearchedFields == {"name", "appNumber", "pubNumber", "country", "patentee"}

\* the positions of the store the search term and the status filter select
Selected ==
    { i \in DOMAIN patents :
        /\ statusFilter = "ALL" \/ patents[i].status = statusFilter
        /\ \E f \in SearchedFields : OccursIn(searchTerm, patents[i][f]) }

\* the k-th selected position, in store order
NthSelected(k) ==
    CHOOSE i \in Selected : Cardinality({j \in Selected : j < i}) = k - 1

OptionalFields == {"patentee", "country", "inventor", "link", "notificationEmails"}

(***************************************************************************)
(* C11  The export makes one row for each record of the filtered view, in  *)
(* the order of the view, and in every row each field the record may lack  *)
(* (patentee, country, inventor, link, notification emails) is a text: the *)
(* empty text where the record lacks it, never undefined.                  *)
(***************************************************************************)
C11_ExportRows ==
    last.op = "export" =>
        LET exportData == last.batch
        IN  /\ Len(exportData) = Len(filteredPatents)
            /\ \A k \in DOMAIN exportData :
                  /\ exportData[k].name = filteredPatents[k].name
                  /\ exportData[k].status = filteredPatents[k].status
                  /\ \A f \in OptionalFields :
                        /\ exportData[k][f] # Undefined
                        /\ filteredPatents[k][f] = Undefined => exportData[k][f] = <<>>

\* what the rows do hold: the view's records in order, the two defaulted
\* columns never undefined, every other column the record's own value
C11_RowsAsBuilt ==
    last.op = "export" =>
        LET exportData == last.batch
        IN  /\ Len(exportData) = Len(filteredPatents)
            /\ \A k \in DOMAIN exportData :
                  /\ \A f \in {"link", "notificationEmails"} :
                        /\ exportData[k][f] # Undefined
                        /\ filteredPatents[k][f] = Undefined => exportData[k][f] = <<>>
                  /\ \A f \in (DOMAIN exportData[k]) \ {"link", "notificationEmails"} :
                        exportData[k][f] = filteredPatents[k][f]

\* a record without inventor has been exported
C11_Witness ==
    /\ last.op = "export"
    /\ \E k \in DOMAIN filteredPatents :
          /\ filteredPatents[k].inventor = Undefined
          /\ filteredPatents[k].link = Undefined
    /\ Len(filteredPatents) < Len(patents)

\* the steps of the confirmation dialog: it opens, it is closed without
\* deleting, it is confirmed, and the confirm handler runs with no target
DeleteClickStep == ~isDeleteModalOpen /\ isDeleteModalOpen'

DeleteCancelStep ==
    isDeleteModalOpen /\ ~isDeleteModalOpen' /\ last'.op = "deleteCancel"

DeleteConfirmStep ==
    isDeleteModalOpen /\ ~isDeleteModalOpen' /\ last'.op = "confirmDelete"

ConfirmNoTargetStep ==
    /\ patentToDelete = <<>>
    /\ ~effectPending
    /\ now' = now
    /\ last'.op = "confirmDelete" /\ last'.batch = <<>>

\* ps without its i-th element
Without(ps, i) == [j \in 1..(Len(ps) - 1) |-> IF j < i THEN ps[j] ELSE ps[j + 1]]

AppUnchanged ==
    UNCHANGED <<patents, viewMode, searchTerm, statusFilter, patentToDelete,
                isDeleteModalOpen, alertCount, effectPending, now, nextId,
                chatSession, calls>>

(***************************************************************************)
(* C12  Deleting is gated by the confirmation: the click on delete leaves  *)
(* the store as it is and sets the target; closing the dialog leaves the   *)
(* store as it is and clears the target; confirming removes the one record *)
(* that has the target's id, the others keeping their order, and clears    *)
(* the target; the confirm handler without a target changes nothing.       *)
(***************************************************************************)
C12_DeleteGated ==
    [][ /\ DeleteClickStep =>
              /\ patents' = patents
              /\ Len(patentToDelete') = 1
              /\ patentToDelete'[1] \in Range(patents)
        /\ DeleteCancelStep =>
              /\ patents' = patents
              /\ patentToDelete' = <<>>
        /\ DeleteConfirmStep =>
              /\ Len(patentToDelete) = 1
              /\ patentToDelete' = <<>>
              /\ \E i \in DOMAIN patents :
                    /\ patents[i].id = patentToDelete[1].id
                    /\ \A j \in DOMAIN patents : patents[j].id = patents[i].id => j = i
                    /\ patents' = Without(patents, i)
        /\ ConfirmNoTargetStep => AppUnchanged ]_vars

\* a record standing between two others has been deleted after confirmation
C12_Witness ==
    /\ last.op = "confirmDelete"
    /\ Len(last.batch) = 1
    /\ Len(patents) = 2
    /\ patents[1].id > last.batch[1].id
    /\ last.batch[1].id > patents[2].id
    /\ ~isDeleteModalOpen

\* the invocations of fn that have ended
Ended(fn) == { c \in Slots : calls[c].fn = fn /\ calls[c].pc \in {"Answered", "Failed"} }

\* the call of the library failed: the session could not be made, or the
\* request was refused or did not get through
CallFailed(c) == calls[c].outcome.kind \in {"createThrew", "rejected"}

NoText(c) == calls[c].outcome.text = Undefined \/ calls[c].outcome.text = <<>>

JSONTexts == { JSONObjectText, <<"{", "}">>, <<"n", "u", "l", "l">> }

EndedParse == Ended("parsePatentFromText") \cup Ended("parsePatentFromFile")

C14_ParsedObject ==
    \A c \in EndedParse :
        calls[c].outcome = Response(JSONObjectText)
            => calls[c].promise.value = JSObject(<< <<<<"n">>, <<"A">>>> >>)

\* the handlers that change the store, and those that leave it alone
StoreChanged == patents' # patents

QuietStep ==
    /\ ~effectPending
    /\ now' = now
    /\ \/ last'.op \in {"setSearchTerm", "setStatusFilter", "setViewMode",
                        "deleteClick", "deleteCancel"}
       \/ last'.op = "import" /\ last'.alert.kind \in {"exists", "allExist"}
       \/ last'.op = "confirmDelete" /\ last'.batch = <<>>

(***************************************************************************)
(* C15  Every change of the store schedules the alert effect, the effect   *)
(* then runs, and when it has run alertCount is the alert rule applied to  *)
(* the store as it is; alertCount changes in no other step, so the search, *)
(* the status filter, the view switch, a rejected import and a cancelled   *)
(* delete leave it as it is and schedule nothing.                          *)
(***************************************************************************)
C15_AlertFollowsStore ==
    /\ [][StoreChanged => effectPending']_vars
    /\ [][EffectStep => alertCount' = Cardinality(DueSoon(patents', now'))]_vars
    /\ [][~EffectStep => alertCount' = alertCount]_vars
    /\ [][QuietStep => /\ patents' = patents
                       /\ alertCount' = alertCount
                       /\ effectPending' = effectPending]_vars
    /\ effectPending ~> ~effectPending

\* the effect has run after the confirmed delete of the one record that was
\* counted, and the count is down to zero with another record left
C15_Witness ==
    /\ last.op = "confirmDelete"
    /\ Len(last.batch) = 1
    /\ last.batch[1].status = "Active"
    /\ last.batch[1].annuityDate = DateStr(1)
    /\ ~effectPending
    /\ alertCount = 0
    /\ Len(patents) = 1
    /\ searchTerm = <<"A">>

\* the steps an invocation may take
Lifecycle ==
    { <<"Idle", "Sending">>, <<"Sending", "Answered">>, <<"Sending", "Failed">>,
      <<"Answered", "Idle">>, <<"Failed", "Idle">> }

IsSendMessage(c) == calls[c].fn = "sendMessageToGemini"

(***************************************************************************)
(* C16  An invocation of sendMessageToGemini goes from Idle to Sending, to *)
(* Answered or Failed, and back to Idle.  It makes at most one request;    *)
(* its promise is settled once, with a string, on the Failed path as on    *)
(* the Answered path; and if the call of the library completes or fails in *)
(* the end, the invocation does not stay in Sending.                       *)
(***************************************************************************)
C16_SendMessageLifecycle ==
    /\ [][\A c \in Slots :
            (IsSendMessage(c) \/ IsSendMessage(c)') /\ calls'[c].pc # calls[c].pc
               => <<calls[c].pc, calls'[c].pc>> \in Lifecycle]_vars
    /\ [](\A c \in Slots : IsSendMessage(c) =>
            /\ calls[c].requests <= 1
            /\ calls[c].pc = "Sending" =>
                  calls[c].settles = 0 /\ calls[c].promise = Pending
            /\ calls[c].pc \in {"Answered", "Failed"} =>
                  /\ calls[c].settles = 1
                  /\ calls[c].promise.state = "fulfilled"
                  /\ calls[c].promise.value.type = "string")
    /\ \A c \in Slots :
          (IsSendMessage(c) /\ calls[c].pc = "Sending")
             ~> (IsSendMessage(c) /\ calls[c].pc \in {"Answered", "Failed"})

\* one invocation has failed after its one request, while another has been
\* answered
C16_Witness ==
    \E c, d \in Slots :
        /\ IsSendMessage(c) /\ calls[c].pc = "Failed" /\ calls[c].requests = 1
        /\ IsSendMessage(d) /\ calls[d].pc = "Answered" /\ calls[d].requests = 1
        /\ calls[c].promise.value.type = calls[d].promise.value.type

\* the update handler has run: it alone schedules the effect and leaves its
\* name in `last`
UpdateStep == ~effectPending /\ effectPending' /\ last'.op = "update"

(***************************************************************************)
(* C17  handleUpdatePatent(u) replaces by id: the store keeps its length   *)
(* and the order of its ids, a record whose id is u.id becomes u, every    *)
(* other record stays as it is, and when no record has the id u.id the     *)
(* store is as it was.                                                     *)
(***************************************************************************)
C17_UpdateReplaces ==
    [][UpdateStep =>
          LET u == last'.batch[1]
          IN  /\ Len(patents') = Len(patents)
              /\ \A i \in DOMAIN patents :
                    /\ patents[i].id = u.id => patents'[i] = u
                    /\ patents[i].id # u.id => patents'[i] = patents[i]
              /\ (\A i \in DOMAIN patents : patents[i].id # u.id) => patents' = patents
              /\ Range(patents') \subseteq Range(patents) \cup {u}]_vars

\* the second of two records has been replaced by a record of its id that
\* differs from it, the first is left
C17_Witness ==
    /\ last.op = "update"
    /\ effectPending
    /\ Len(patents) = 2
    /\ patents[2] = last.batch[1]
    /\ patents[2] = WithId(Rows[2], 1)
    /\ patents[1] = WithId(Rows[4], 2)

\* an update with an id that no record has leaves the store as it was
C17_WitnessNoMatch ==
    /\ last.op = "update"
    /\ effectPending
    /\ Len(patents) = 2
    /\ \A i \in DOMAIN patents : patents[i].id # last.batch[1].id

====
